---- MODULE Spec2Model ----
(***************************************************************************)
(* Model of the file-acquisition controller of frontend/script.js: the     *)
(* drop zone, the file picker, the camera (openCamera / captureImage), the *)
(* shared handleFileSelection and analyzeResume with its delay timer.      *)
(*                                                                         *)
(* Every event listener runs to completion, so each listener (and each     *)
(* continuation: the resumption after `await getUserMedia`, the toBlob     *)
(* callback, the setTimeout callback) is one atomic action.                *)
(***************************************************************************)
EXTENDS Integers, Sequences, FiniteSets, TLC

\* ------------------------------------------------------------------ bounds

\* getUserMedia calls issued over a run (each click on cameraBtn issues one)
MaxRequests == 2
\* canvas.toBlob callbacks that may be pending at once
MaxBlobs == 1
\* analyzeResume timers that may be pending at once
MaxTimers == 2

\* ------------------------------------------------------------------ values

\* `null` where a File is expected (selectedFile, a listener without candidate)
NULL == [name |-> "null", type |-> "null"]

\* `null` where a MediaStream is expected (stream, video.srcObject)
NoStream == 0

\* no alert() was raised by the last listener
NoAlert == "none"

MkFile(n, t) == [name |-> n, type |-> t]

\* the File synthesized by the toBlob callback
PhotoFile == MkFile("resume-photo.jpg", "image/jpeg")

\* the list handleFileSelection checks file.type against
validTypes_NoPng ==
    { "application/pdf",
      "application/vnd.openxmlformats-officedocument.wordprocessingml.document",
      "application/msword", "text/plain", "image/jpeg" }

validTypes_WithGif ==
    { "application/pdf",
      "application/vnd.openxmlformats-officedocument.wordprocessingml.document",
      "application/msword", "text/plain", "image/jpeg", "image/png",
      "image/gif" }

validTypes ==
    { "application/pdf",
      "application/vnd.openxmlformats-officedocument.wordprocessingml.document",
      "application/msword", "text/plain", "image/jpeg", "image/png" }

\* the files a user may drop or pick: one per accepted type, and files whose
\* declared type is not accepted (an executable, a gif, a file with no
\* declared type)
UserFiles ==
    { MkFile("cv.pdf", "application/pdf"),
      MkFile("cv.docx",
             "application/vnd.openxmlformats-officedocument.wordprocessingml.document"),
      MkFile("cv.doc", "application/msword"),
      MkFile("cv.txt", "text/plain"),
      MkFile("scan.jpg", "image/jpeg"),
      MkFile("scan.png", "image/png"),
      MkFile("setup.exe", "application/x-msdownload"),
      MkFile("anim.gif", "image/gif"),
      MkFile("README", "") }

\* e.dataTransfer.files / e.target.files: no file (text dropped, dialog
\* cancelled), one file, or a file followed by another one
FileLists ==
    { << >> } \cup { << f >> : f \in UserFiles }
              \cup { << MkFile("cv.pdf", "application/pdf"),
                        MkFile("setup.exe", "application/x-msdownload") >>,
                     << MkFile("setup.exe", "application/x-msdownload"),
                        MkFile("cv.pdf", "application/pdf") >> }

\* the MediaStream objects getUserMedia may hand out
StreamIds == 1..MaxRequests

\* ------------------------------------------------------------------- state

VARIABLES
    stream,                 \* let stream: NoStream or a MediaStream
    selectedFile,           \* let selectedFile: NULL or a File
    selectedFileName,       \* selectedFileName.textContent
    selectedFileContainerHidden, \* selectedFileContainer has class 'hidden'
    cameraFeedHidden,       \* cameraFeed has class 'hidden'
    cameraBtnHidden,        \* cameraBtn has class 'hidden'
    videoSrc,               \* video.srcObject
    loadingHidden,          \* loadingSection has class 'hidden'
    resultsHidden,          \* resultsSection has class 'hidden'
    resultsRendered,        \* generateResults has filled the results view
    dropZoneBackground,     \* dropZone.style.backgroundColor
    acquired,               \* MediaStreams getUserMedia has resolved with
    live,                   \* those of them with a track not yet stopped
    pendingMedia,           \* getUserMedia promises not yet settled
    pendingBlobs,           \* toBlob callbacks not yet run (stream captured from)
    pendingTimers,          \* setTimeout callbacks of analyzeResume not yet run
    cameraClicks,           \* clicks on cameraBtn so far
    mediaRequests,          \* getUserMedia calls so far
    lastEvent,              \* the listener / callback that ran last, its candidate
    alertShown              \* the alert() that listener raised, or NoAlert

vars == << stream, selectedFile, selectedFileName, selectedFileContainerHidden,
           cameraFeedHidden, cameraBtnHidden, videoSrc, loadingHidden,
           resultsHidden, resultsRendered, dropZoneBackground, acquired, live,
           pendingMedia, pendingBlobs, pendingTimers, cameraClicks,
           mediaRequests, lastEvent, alertShown >>

fileVars == << selectedFile, selectedFileName, selectedFileContainerHidden >>
cameraVars == << stream, cameraFeedHidden, cameraBtnHidden, videoSrc, acquired,
                 live, pendingMedia, cameraClicks, mediaRequests >>
analyzeVars == << loadingHidden, resultsHidden, resultsRendered, pendingTimers >>

Event(k, f) == [kind |-> k, file |-> f]

\* the page as loaded, after init() has registered the listeners
Init ==
    /\ stream = NoStream
    /\ selectedFile = NULL
    /\ selectedFileName = ""
    /\ selectedFileContainerHidden = TRUE
    /\ cameraFeedHidden = TRUE
    /\ cameraBtnHidden = FALSE
    /\ videoSrc = NoStream
    /\ loadingHidden = TRUE
    /\ resultsHidden = TRUE
    /\ resultsRendered = FALSE
    /\ dropZoneBackground = "initial"
    /\ acquired = {}
    /\ live = {}
    /\ pendingMedia = 0
    /\ pendingBlobs = << >>
    /\ pendingTimers = 0
    /\ cameraClicks = 0
    /\ mediaRequests = 0
    /\ lastEvent = Event("init", NULL)
    /\ alertShown = NoAlert

\* --------------------------------------------------------- file handling

\* handleFileSelection(file): the selection is written first, then the type
\* is checked and the selection undone when the type is not accepted
handleFileSelection_KeepsOnReject(file) ==
    /\ selectedFileName' = file.name
    /\ IF file.type \in validTypes
       THEN /\ selectedFile' = file
            /\ selectedFileContainerHidden' = FALSE
            /\ alertShown' = NoAlert
       ELSE /\ alertShown' = "Please upload a valid file type (PDF, DOCX, DOC, TXT, JPG, PNG)"
            /\ UNCHANGED << selectedFile, selectedFileContainerHidden >>

handleFileSelection_StaleName(file) ==
    /\ IF file.type \in validTypes
       THEN /\ selectedFile' = file
            /\ selectedFileName' = IF selectedFile = NULL THEN file.name
                                                          ELSE selectedFileName
            /\ selectedFileContainerHidden' = FALSE
            /\ alertShown' = NoAlert
       ELSE /\ alertShown' = "Please upload a valid file type (PDF, DOCX, DOC, TXT, JPG, PNG)"
            /\ selectedFileName' = file.name
            /\ selectedFile' = NULL
            /\ selectedFileContainerHidden' = TRUE

handleFileSelection(file) ==
    /\ selectedFileName' = file.name
    /\ IF file.type \in validTypes
       THEN /\ selectedFile' = file
            /\ selectedFileContainerHidden' = FALSE
            /\ alertShown' = NoAlert
       ELSE /\ alertShown' = "Please upload a valid file type (PDF, DOCX, DOC, TXT, JPG, PNG)"
            /\ selectedFile' = NULL
            /\ selectedFileContainerHidden' = TRUE

\* dropZone 'dragover'
DragOver ==
    /\ dropZoneBackground' = "rgba(67, 97, 238, 0.1)"
    /\ lastEvent' = Event("dragover", NULL)
    /\ alertShown' = NoAlert
    /\ UNCHANGED << fileVars, cameraVars, analyzeVars, pendingBlobs >>

\* dropZone 'dragleave'
DragLeave ==
    /\ dropZoneBackground' = "rgba(67, 97, 238, 0.05)"
    /\ lastEvent' = Event("dragleave", NULL)
    /\ alertShown' = NoAlert
    /\ UNCHANGED << fileVars, cameraVars, analyzeVars, pendingBlobs >>

\* dropZone 'drop' carrying the list `files`
Drop(files) ==
    /\ dropZoneBackground' = "rgba(67, 97, 238, 0.05)"
    /\ IF Len(files) > 0
       THEN /\ handleFileSelection(files[1])
            /\ lastEvent' = Event("drop", files[1])
       ELSE /\ lastEvent' = Event("drop", NULL)
            /\ alertShown' = NoAlert
            /\ UNCHANGED fileVars
    /\ UNCHANGED << cameraVars, analyzeVars, pendingBlobs >>

\* fileInput 'change' carrying the list `files`
FileInputChange(files) ==
    /\ IF Len(files) > 0
       THEN /\ handleFileSelection(files[1])
            /\ lastEvent' = Event("change", files[1])
       ELSE /\ lastEvent' = Event("change", NULL)
            /\ alertShown' = NoAlert
            /\ UNCHANGED fileVars
    /\ UNCHANGED << cameraVars, analyzeVars, pendingBlobs, dropZoneBackground >>

\* ----------------------------------------------------------------- camera

\* openCamera up to its `await`: cameraBtn is clickable while it is shown;
\* the call of getUserMedia leaves a promise pending
openCamera ==
    /\ cameraBtnHidden = FALSE
    /\ mediaRequests < MaxRequests
    /\ cameraClicks' = cameraClicks + 1
    /\ mediaRequests' = mediaRequests + 1
    /\ pendingMedia' = pendingMedia + 1
    /\ lastEvent' = Event("openCamera", NULL)
    /\ alertShown' = NoAlert
    /\ UNCHANGED << stream, cameraFeedHidden, cameraBtnHidden, videoSrc,
                    acquired, live, fileVars, analyzeVars, pendingBlobs,
                    dropZoneBackground >>

\* openCamera resumed with a MediaStream: the platform hands out a new
\* stream with live tracks, whatever streams it handed out before
openCameraGranted ==
    /\ pendingMedia > 0
    /\ LET s == Cardinality(acquired) + 1 IN
       /\ acquired' = acquired \cup {s}
       /\ live' = live \cup {s}
       /\ stream' = s
       /\ videoSrc' = s
    /\ cameraFeedHidden' = FALSE
    /\ cameraBtnHidden' = TRUE
    /\ pendingMedia' = pendingMedia - 1
    /\ lastEvent' = Event("granted", NULL)
    /\ alertShown' = NoAlert
    /\ UNCHANGED << cameraClicks, mediaRequests, fileVars, analyzeVars,
                    pendingBlobs, dropZoneBackground >>

\* openCamera resumed with a rejection (permission denied, no camera): the
\* catch block logs and alerts
openCameraDenied_Retry ==
    /\ pendingMedia > 0
    /\ mediaRequests' = IF mediaRequests < MaxRequests THEN mediaRequests + 1
                                                       ELSE mediaRequests
    /\ pendingMedia' = IF mediaRequests < MaxRequests THEN pendingMedia
                                                      ELSE pendingMedia - 1
    /\ lastEvent' = Event("denied", NULL)
    /\ alertShown' = "Unable to access camera. Please check permissions."
    /\ UNCHANGED << stream, cameraFeedHidden, cameraBtnHidden, videoSrc,
                    acquired, live, cameraClicks, fileVars,
                    analyzeVars, pendingBlobs, dropZoneBackground >>

openCameraDenied ==
    /\ pendingMedia > 0
    /\ pendingMedia' = pendingMedia - 1
    /\ lastEvent' = Event("denied", NULL)
    /\ alertShown' = "Unable to access camera. Please check permissions."
    /\ UNCHANGED << stream, cameraFeedHidden, cameraBtnHidden, videoSrc,
                    acquired, live, cameraClicks, mediaRequests, fileVars,
                    analyzeVars, pendingBlobs, dropZoneBackground >>

\* captureImage: captureBtn sits in the camera feed, clickable while the
\* feed is shown.  drawn = FALSE is the run in which creating the canvas
\* context or drawing the frame throws: the listener ends there, before the
\* tracks are stopped and before toBlob is called.
captureImage(drawn) ==
    /\ cameraFeedHidden = FALSE
    /\ IF drawn /\ stream # NoStream
       THEN /\ Len(pendingBlobs) < MaxBlobs
            /\ live' = live \ {stream}
            /\ pendingBlobs' = Append(pendingBlobs, stream)
       ELSE UNCHANGED << live, pendingBlobs >>
    /\ lastEvent' = Event("capture", NULL)
    /\ alertShown' = NoAlert
    /\ UNCHANGED << stream, cameraFeedHidden, cameraBtnHidden, videoSrc,
                    acquired, pendingMedia, cameraClicks, mediaRequests,
                    fileVars, analyzeVars, dropZoneBackground >>

\* the callback captureImage gave to canvas.toBlob
toBlobCallback_NoReset ==
    /\ pendingBlobs # << >>
    /\ pendingBlobs' = Tail(pendingBlobs)
    /\ handleFileSelection(PhotoFile)
    /\ lastEvent' = Event("blob", PhotoFile)
    /\ UNCHANGED << cameraFeedHidden, cameraBtnHidden >>
    /\ UNCHANGED << stream, videoSrc, acquired, live, pendingMedia,
                    cameraClicks, mediaRequests, analyzeVars,
                    dropZoneBackground >>

toBlobCallback_NoButton ==
    /\ pendingBlobs # << >>
    /\ pendingBlobs' = Tail(pendingBlobs)
    /\ handleFileSelection(PhotoFile)
    /\ lastEvent' = Event("blob", PhotoFile)
    /\ cameraFeedHidden' = TRUE
    /\ UNCHANGED << cameraBtnHidden, stream, videoSrc, acquired, live,
                    pendingMedia, cameraClicks, mediaRequests, analyzeVars,
                    dropZoneBackground >>

toBlobCallback ==
    /\ pendingBlobs # << >>
    /\ pendingBlobs' = Tail(pendingBlobs)
    /\ handleFileSelection(PhotoFile)
    /\ lastEvent' = Event("blob", PhotoFile)
    /\ cameraFeedHidden' = TRUE
    /\ cameraBtnHidden' = FALSE
    /\ UNCHANGED << stream, videoSrc, acquired, live, pendingMedia,
                    cameraClicks, mediaRequests, analyzeVars,
                    dropZoneBackground >>

\* ---------------------------------------------------------------- analyze

\* analyzeResume, the click listener of analyzeBtn
analyzeResume_NoGuard ==
    /\ pendingTimers < MaxTimers
    /\ loadingHidden' = FALSE
    /\ resultsHidden' = TRUE
    /\ pendingTimers' = pendingTimers + 1
    /\ alertShown' = IF selectedFile = NULL THEN "Please select a file first"
                                            ELSE NoAlert
    /\ UNCHANGED resultsRendered
    /\ lastEvent' = Event("analyze", NULL)
    /\ UNCHANGED << fileVars, cameraVars, pendingBlobs, dropZoneBackground >>

analyzeResume_KeepsResults ==
    /\ IF selectedFile = NULL
       THEN /\ alertShown' = "Please select a file first"
            /\ UNCHANGED analyzeVars
       ELSE /\ pendingTimers < MaxTimers
            /\ loadingHidden' = FALSE
            /\ pendingTimers' = pendingTimers + 1
            /\ alertShown' = NoAlert
            /\ UNCHANGED << resultsHidden, resultsRendered >>
    /\ lastEvent' = Event("analyze", NULL)
    /\ UNCHANGED << fileVars, cameraVars, pendingBlobs, dropZoneBackground >>

analyzeResume ==
    /\ IF selectedFile = NULL
       THEN /\ alertShown' = "Please select a file first"
            /\ UNCHANGED analyzeVars
       ELSE /\ pendingTimers < MaxTimers
            /\ loadingHidden' = FALSE
            /\ resultsHidden' = TRUE
            /\ pendingTimers' = pendingTimers + 1
            /\ alertShown' = NoAlert
            /\ UNCHANGED resultsRendered
    /\ lastEvent' = Event("analyze", NULL)
    /\ UNCHANGED << fileVars, cameraVars, pendingBlobs, dropZoneBackground >>

\* the setTimeout callback of analyzeResume
analyzeTimer_ClearsFile ==
    /\ pendingTimers > 0
    /\ pendingTimers' = pendingTimers - 1
    /\ loadingHidden' = TRUE
    /\ resultsHidden' = FALSE
    /\ resultsRendered' = TRUE
    /\ lastEvent' = Event("timer", NULL)
    /\ alertShown' = NoAlert
    /\ selectedFile' = NULL
    /\ selectedFileContainerHidden' = TRUE
    /\ UNCHANGED << selectedFileName, cameraVars, pendingBlobs,
                    dropZoneBackground >>

analyzeTimer_KeepsLoading ==
    /\ pendingTimers > 0
    /\ pendingTimers' = pendingTimers - 1
    /\ resultsHidden' = FALSE
    /\ resultsRendered' = TRUE
    /\ lastEvent' = Event("timer", NULL)
    /\ alertShown' = NoAlert
    /\ UNCHANGED << loadingHidden, fileVars, cameraVars, pendingBlobs,
                    dropZoneBackground >>

analyzeTimer ==
    /\ pendingTimers > 0
    /\ pendingTimers' = pendingTimers - 1
    /\ loadingHidden' = TRUE
    /\ resultsHidden' = FALSE
    /\ resultsRendered' = TRUE
    /\ lastEvent' = Event("timer", NULL)
    /\ alertShown' = NoAlert
    /\ UNCHANGED << fileVars, cameraVars, pendingBlobs, dropZoneBackground >>

\* ----------------------------------------------------------- specification

DropAny == \E files \in FileLists : Drop(files)
ChangeAny == \E files \in FileLists : FileInputChange(files)
CaptureAny == \E drawn \in BOOLEAN : captureImage(drawn)

Next ==
    \/ DragOver
    \/ DragLeave
    \/ DropAny
    \/ ChangeAny
    \/ openCamera
    \/ openCameraGranted
    \/ openCameraDenied
    \/ CaptureAny
    \/ toBlobCallback
    \/ analyzeResume
    \/ analyzeTimer

Spec == Init /\ [][Next]_vars

\* the browser runs a queued toBlob callback and a due timer; nothing
\* obliges the user to act or the permission prompt to be answered
LiveSpec == Spec /\ WF_vars(toBlobCallback) /\ WF_vars(analyzeTimer)

TypeOK ==
    /\ stream \in {NoStream} \cup StreamIds
    /\ selectedFile \in {NULL} \cup UserFiles \cup {PhotoFile}
    /\ live \subseteq acquired
    /\ acquired \subseteq StreamIds
    /\ pendingMedia \in 0..MaxRequests
    /\ Len(pendingBlobs) <= MaxBlobs
    /\ pendingTimers \in 0..MaxTimers
    /\ (cameraFeedHidden = FALSE => stream # NoStream)

\* ------------------------------------------------------------------ claims

\* the allow-list as the specification states it
AllowList ==
    { "application/pdf",
      "application/vnd.openxmlformats-officedocument.wordprocessingml.document",
      "application/msword", "text/plain", "image/jpeg", "image/png" }

\* the last listener handed a candidate to handleFileSelection (the three
\* acquisition sources: drop, picker change, camera capture)
Acquired == lastEvent.kind \in {"drop", "change", "blob"} /\ lastEvent.file # NULL

RejectAlert == "Please upload a valid file type (PDF, DOCX, DOC, TXT, JPG, PNG)"

\* C1: after an acquisition, through any of the three sources, of a
\* candidate whose MIME type is in the allow-list, selectedFile is exactly
\* that candidate and the selection panel is shown, whatever the state was
\* before.
C1_ValidAcquisitionSelects ==
    (Acquired /\ lastEvent.file.type \in AllowList)
        => /\ selectedFile = lastEvent.file
           /\ selectedFileContainerHidden = FALSE
           /\ alertShown = NoAlert

\* a png dropped while the camera is open and an analysis is running
C1_Witness ==
    /\ lastEvent = Event("drop", MkFile("scan.png", "image/png"))
    /\ selectedFile = MkFile("scan.png", "image/png")
    /\ cameraFeedHidden = FALSE
    /\ loadingHidden = FALSE

\* C2: after an acquisition of a candidate whose MIME type is outside the
\* allow-list, selectedFile is empty, the selection panel is hidden and the
\* user has been told; no earlier selection survives.
C2_InvalidAcquisitionRejected ==
    (Acquired /\ lastEvent.file.type \notin AllowList)
        => /\ selectedFile = NULL
           /\ selectedFileContainerHidden = TRUE
           /\ alertShown = RejectAlert

\* an executable picked while an analysis of an earlier selection is running
C2_Witness ==
    /\ lastEvent = Event("change", MkFile("setup.exe", "application/x-msdownload"))
    /\ selectedFile = NULL
    /\ selectedFileContainerHidden = TRUE
    /\ loadingHidden = FALSE

\* C3: after a capture request the stream held in `stream` has no live
\* track, on every path through captureImage.
C3_CaptureAlwaysReleases ==
    lastEvent.kind = "capture" => stream \notin live

\* C4: at most one acquired stream has live tracks.
C4_AtMostOneSession == Cardinality(live) <= 1

\* C5: whenever the camera feed is hidden, no acquired stream has a live
\* track.
C5_ReleasedWhenClosed == cameraFeedHidden = TRUE => live = {}

\* C6: analyze with no file selected alerts and changes nothing else: the
\* selection, the stream, the loading and results sections stay as they
\* were and no timer is scheduled.
C6_AnalyzeWithoutFileIsNoOp ==
    [][ (lastEvent'.kind = "analyze" /\ selectedFile = NULL)
          => /\ alertShown' = "Please select a file first"
             /\ UNCHANGED << fileVars, cameraVars, analyzeVars, pendingBlobs,
                             dropZoneBackground >> ]_vars

\* analyze clicked with nothing selected while earlier results are on show
C6_Witness ==
    /\ lastEvent.kind = "analyze"
    /\ selectedFile = NULL
    /\ alertShown = "Please select a file first"
    /\ resultsHidden = FALSE
    /\ pendingTimers = 0

\* C7: an acquisition of a valid candidate while a file is selected leaves
\* the new file as selectedFile and as the displayed name; a name comes on
\* display only as the candidate of the acquisition just handled (so the
\* replaced file is not shown again unless acquired again); and what is on
\* display is always the one selected file.
C7_ReplacementIsAtomic ==
    [][ /\ (/\ selectedFile # NULL
            /\ lastEvent'.kind \in {"drop", "change", "blob"}
            /\ lastEvent'.file # NULL
            /\ lastEvent'.file.type \in AllowList)
           => /\ selectedFile' = lastEvent'.file
              /\ selectedFileName' = lastEvent'.file.name
              /\ selectedFileContainerHidden' = FALSE
        /\ (/\ selectedFileContainerHidden' = FALSE
            /\ (selectedFileContainerHidden = TRUE
                \/ selectedFileName' # selectedFileName))
           => /\ lastEvent'.kind \in {"drop", "change", "blob"}
              /\ lastEvent'.file.name = selectedFileName'
        /\ selectedFileContainerHidden' = FALSE
           => /\ selectedFile' # NULL
              /\ selectedFileName' = selectedFile'.name ]_vars

\* a pdf picked while the analysis of the file it replaces is still running
C7_Witness ==
    /\ lastEvent = Event("change", MkFile("cv.pdf", "application/pdf"))
    /\ selectedFile = MkFile("cv.pdf", "application/pdf")
    /\ selectedFileName = "cv.pdf"
    /\ selectedFileContainerHidden = FALSE
    /\ loadingHidden = FALSE

\* C8: a failed open-camera request alerts and leaves selectedFile, stream,
\* the camera feed and the open-camera button as they were, and issues no
\* request of its own: requests never exceed clicks.
C8_DeniedKeepsState ==
    [][ /\ lastEvent'.kind = "denied"
           => /\ alertShown' = "Unable to access camera. Please check permissions."
              /\ UNCHANGED << selectedFile, stream, cameraFeedHidden,
                              cameraBtnHidden, videoSrc, live, mediaRequests >>
        /\ mediaRequests' <= cameraClicks' ]_vars

\* a denial with a file selected: feed hidden, button on offer
C8_Witness ==
    /\ lastEvent.kind = "denied"
    /\ alertShown = "Unable to access camera. Please check permissions."
    /\ cameraFeedHidden = TRUE
    /\ cameraBtnHidden = FALSE
    /\ stream = NoStream
    /\ selectedFile # NULL
    /\ pendingMedia = 0

\* the outcome of a capture: the photo selected, the feed hidden, the
\* button back
CaptureDone ==
    /\ lastEvent = Event("blob", PhotoFile)
    /\ selectedFile = PhotoFile
    /\ selectedFileName = "resume-photo.jpg"
    /\ selectedFileContainerHidden = FALSE
    /\ cameraFeedHidden = TRUE
    /\ cameraBtnHidden = FALSE

C10_OneStateAtATime == ~(live # {} /\ selectedFile # NULL)

\* C11: selectedFile goes from a file to empty only in a step in which
\* handleFileSelection rejects a candidate (a drop or a picker change with a
\* type outside the allow-list); never in an analyze click, an analyze
\* timer, an open-camera click, a permission outcome, a capture, a dragover
\* or a dragleave.
C11_ClearedOnlyByRejection ==
    [][ (selectedFile # NULL /\ selectedFile' = NULL)
          => /\ lastEvent'.kind \in {"drop", "change", "blob"}
             /\ lastEvent'.file # NULL
             /\ lastEvent'.file.type \notin AllowList
             /\ alertShown' = RejectAlert ]_vars

\* a gif dropped while the analysis of the selection it clears is running
C11_Witness ==
    /\ lastEvent = Event("drop", MkFile("anim.gif", "image/gif"))
    /\ selectedFile = NULL
    /\ alertShown = RejectAlert
    /\ loadingHidden = FALSE
    /\ pendingTimers > 0

\* C12 as stated: between listeners the selection panel is visible exactly
\* when selectedFile is non-empty, and the camera view is visible (and the
\* open-camera button hidden) exactly when a stream with live tracks exists.
C12_VisibilityMirrorsState ==
    /\ (selectedFileContainerHidden = FALSE) <=> (selectedFile # NULL)
    /\ (cameraFeedHidden = FALSE) <=> (live # {})
    /\ (cameraBtnHidden = TRUE) <=> (live # {})

\* C12 amended: between listeners the selection panel is visible exactly
\* when selectedFile is non-empty, the open-camera button is hidden exactly
\* when the camera view is visible, and a visible camera view shows the
\* stream held in `stream` (which may already be stopped).
C12_VisibilityMirrorsVariables ==
    /\ (selectedFileContainerHidden = FALSE) <=> (selectedFile # NULL)
    /\ (cameraBtnHidden = TRUE) <=> (cameraFeedHidden = FALSE)
    /\ (cameraFeedHidden = FALSE)
          => (stream # NoStream /\ stream \in acquired /\ videoSrc = stream)

\* the camera view still shown after a capture stopped the tracks, with a
\* file selected and its panel shown
C12_Witness ==
    /\ cameraFeedHidden = FALSE
    /\ cameraBtnHidden = TRUE
    /\ stream # NoStream
    /\ live = {}
    /\ pendingBlobs # << >>
    /\ selectedFile # NULL
    /\ selectedFileContainerHidden = FALSE

\* C13: between listeners selectedFile is empty or a file whose MIME type is
\* in the allow-list; so an analyze click that starts the loading phase
\* (no alert, loading shown, a timer scheduled) does so for a file of a
\* supported type.
C13_SelectedFileIsSupported ==
    /\ selectedFile # NULL => selectedFile.type \in AllowList
    /\ (lastEvent.kind = "analyze" /\ alertShown = NoAlert)
          => /\ selectedFile # NULL
             /\ selectedFile.type \in AllowList
             /\ loadingHidden = FALSE
             /\ pendingTimers > 0

\* the loading phase started for a text file, after an earlier analysis
C13_Witness ==
    /\ lastEvent.kind = "analyze"
    /\ alertShown = NoAlert
    /\ selectedFile = MkFile("cv.txt", "text/plain")
    /\ loadingHidden = FALSE
    /\ resultsRendered = TRUE

\* the outcome of an analysis: loading hidden, results rendered and shown
AnalysisShown ==
    /\ lastEvent.kind = "timer"
    /\ loadingHidden = TRUE
    /\ resultsHidden = FALSE
    /\ resultsRendered = TRUE

\* C14: an analyze click with a file selected shows the loading section,
\* hides the results section and schedules a timer in the same step; a
\* pending timer is eventually followed by loading hidden and results
\* shown; the results section comes on show only when a timer fires, and a
\* timer is scheduled only by an analyze click with a file selected.
C14_AnalyzeShowsLoadingThenResults ==
    /\ [][ (lastEvent'.kind = "analyze" /\ selectedFile # NULL)
             => /\ loadingHidden' = FALSE
                /\ resultsHidden' = TRUE
                /\ pendingTimers' = pendingTimers + 1 ]_vars
    /\ (pendingTimers > 0) ~> AnalysisShown
    /\ [][ (resultsHidden = TRUE /\ resultsHidden' = FALSE)
             => (lastEvent'.kind = "timer" /\ pendingTimers > 0) ]_vars
    /\ [][ (pendingTimers' > pendingTimers)
             => (lastEvent'.kind = "analyze" /\ selectedFile # NULL) ]_vars

\* results on show after the timer of an analysis fired, nothing pending
C14_Witness ==
    /\ AnalysisShown
    /\ pendingTimers = 0
    /\ selectedFile # NULL

\* C15: the loading section and the results section are never visible at
\* the same time.
C15_LoadingExcludesResults ==
    ~(loadingHidden = FALSE /\ resultsHidden = FALSE)

\* an analyze click repeated while the earlier timer is pending, after
\* results of a still earlier analysis had been shown
C15_Witness ==
    /\ lastEvent.kind = "analyze"
    /\ pendingTimers = 2
    /\ loadingHidden = FALSE
    /\ resultsHidden = TRUE
    /\ resultsRendered = TRUE

====
